---- MODULE Spec2Model ----
(***************************************************************************)
(* Model of src/src/ocean_collector.py: the OceanDataCollector store       *)
(* (tables sensors, readings, anomalies in one SQLite file), its write     *)
(* path (deploy_sensor, ingest_reading, _check_anomalies) and its read     *)
(* path (get_latest, get_history, calculate_heat_content).                 *)
(*                                                                         *)
(* Numbers.  Python floats are modelled in fixed point: temperatures,      *)
(* salinity, dissolved oxygen, current and depth are whole numbers, pH is  *)
(* kept in tenths (7.8 is 78), latitude and longitude in tenths, heat in   *)
(* thousandths of kJ/m2 before rounding and in hundredths after round(.,2).*)
(*                                                                         *)
(* Time.  datetime.now() is the wall clock `now`, counted in ticks from    *)
(* day 2, 00:00:00: tick 2h is hour h sharp (microsecond = 0) and tick     *)
(* 2h+1 is hour h plus half a second (microsecond = 500000).  The clock    *)
(* is the environment's: it may stand still between two calls and it may   *)
(* be set back (datetime.now() is naive local time).                       *)
(***************************************************************************)
EXTENDS Integers, Sequences, FiniteSets, TLC

VARIABLES
    sensors,    \* table sensors: id -> row (id is the PRIMARY KEY)
    readings,   \* table readings: rows in AUTOINCREMENT id order
    anomalies,  \* table anomalies: rows in AUTOINCREMENT id order
    now,        \* the wall clock read by datetime.now()
    call,       \* the last call made on the collector, with its arguments
    ret         \* what that call returned or raised

vars == <<sensors, readings, anomalies, now, call, ret>>

(***************************************************************************)
(* Bounds of the model.                                                    *)
(***************************************************************************)
MaxReadings == 2    \* rows the readings table may hold
MaxClock == 2       \* the clock ranges over ticks 0..MaxClock
MaxUuid == 1        \* distinct values uuid4().hex[:8] may take

\* Python's None and SQL's NULL; a value that may be None is <<>> or <<x>>.
\* A last_reading_ts column holds NULL or the timestamp text, never empty.
NULL == <<>>

Some(x) == <<x>>

Range(s) == {s[i] : i \in DOMAIN s}

(***************************************************************************)
(* datetime.isoformat(): "YYYY-MM-DDTHH:MM:SS", followed by ".ffffff" only *)
(* when microsecond # 0.  The string is a sequence of character codes; the *)
(* fields that are the same in every timestamp of the model (year, month,  *)
(* the tens of the day, "T", minutes, seconds, the last five digits of the *)
(* fraction) are left out, which changes no comparison.                    *)
(***************************************************************************)
TicksPerHour == 2
TicksPerDay == 24 * TicksPerHour

Digit(d) == 48 + d

isoformat(t) ==
    LET day == 2 + (t \div TicksPerDay)
        h   == (t % TicksPerDay) \div TicksPerHour
        us  == t % TicksPerHour
    IN  <<Digit(day), Digit(h \div 10), Digit(h % 10)>>
            \o (IF us # 0 THEN <<46, Digit(5)>> ELSE <<>>)

\* timedelta(hours=h), in ticks
timedelta(hours) == hours * TicksPerHour

(***************************************************************************)
(* SQLite's comparison of two TEXT values (BINARY collation): memcmp on    *)
(* the common prefix, then the shorter string is the smaller.              *)
(***************************************************************************)
RECURSIVE TextLess(_, _)
TextLess(a, b) ==
    IF b = <<>> THEN FALSE
    ELSE IF a = <<>> THEN TRUE
    ELSE IF Head(a) # Head(b) THEN Head(a) < Head(b)
    ELSE TextLess(Tail(a), Tail(b))

(***************************************************************************)
(* The schema and the demo fleet.                                          *)
(***************************************************************************)
SensorType == {"buoy", "argo_float", "glider", "mooring", "auv", "ctd"}

OceanSensor(id, name, type, lat, lon, depth_m, status, last_reading_ts) ==
    [id |-> id, name |-> name, type |-> type, lat |-> lat, lon |-> lon,
     depth_m |-> depth_m, status |-> status, last_reading_ts |-> last_reading_ts]

OceanReading(sensor_id, temp, salinity, ph, o2, current, depth, timestamp) ==
    [sensor_id |-> sensor_id, temperature_c |-> temp, salinity_psu |-> salinity,
     ph |-> ph, dissolved_o2_mgl |-> o2, current_ms |-> current,
     depth_m |-> depth, timestamp |-> timestamp]

Anomaly(sensor_id, type, value, severity, timestamp) ==
    [sensor_id |-> sensor_id, type |-> type, value |-> value,
     severity |-> severity, timestamp |-> timestamp]

\* _initialize_demo_sensors on an empty sensors table
demo_sensors ==
    [id \in {"S_PACIFIC_01", "S_ATLANTIC_01", "S_ARCTIC_01"} |->
        CASE id = "S_PACIFIC_01" ->
                OceanSensor(id, "Pacific Buoy", "buoy", 355, -1203, 4000, "active", NULL)
          [] id = "S_ATLANTIC_01" ->
                OceanSensor(id, "Atlantic Mooring", "mooring", 452, -301, 5000, "active", NULL)
          [] id = "S_ARCTIC_01" ->
                OceanSensor(id, "Arctic Glider", "glider", 785, 152, 3000, "active", NULL)]

\* The database file as one value: what a connection reads and writes.
Database == [sensors |-> sensors, readings |-> readings, anomalies |-> anomalies]

(***************************************************************************)
(* SQL statements, each a function from the connection's view of the       *)
(* database to its view after the statement.                               *)
(***************************************************************************)
\* SELECT * FROM sensors (the WHERE clause lost) followed by fetchone()
SelectSensorAny(db, sensor_id) ==
    IF sensor_id \in DOMAIN db.sensors THEN Some(db.sensors[sensor_id])
    ELSE Some(db.sensors["S_PACIFIC_01"])

\* SELECT * FROM sensors WHERE id = ?  followed by fetchone()
SelectSensor(db, sensor_id) ==
    IF sensor_id \in DOMAIN db.sensors THEN Some(db.sensors[sensor_id]) ELSE NULL

\* INSERT INTO readings (...) VALUES (...)
InsertReading(db, reading) ==
    [db EXCEPT !.readings = Append(@, reading)]

\* UPDATE sensors SET last_reading_ts = ? (the WHERE clause lost)
UpdateLastReadingAll(db, sensor_id, timestamp) ==
    [db EXCEPT !.sensors =
        [id \in DOMAIN @ |-> [@[id] EXCEPT !.last_reading_ts = timestamp]]]

\* UPDATE sensors SET last_reading_ts = ? WHERE id = ?
UpdateLastReading(db, sensor_id, timestamp) ==
    [db EXCEPT !.sensors =
        [id \in DOMAIN @ |->
            IF id = sensor_id THEN [@[id] EXCEPT !.last_reading_ts = timestamp]
            ELSE @[id]]]

\* INSERT INTO anomalies (...) VALUES (...)
InsertAnomaly(db, anomaly) ==
    [db EXCEPT !.anomalies = Append(@, anomaly)]

(***************************************************************************)
(* _check_anomalies: three independent rules, each an INSERT on the        *)
(* caller's cursor.  pH is in tenths.                                      *)
(***************************************************************************)
\* temp >= 30 in place of temp > 30
HighTemperatureGe(temp) == temp >= 30

HighTemperature(temp) == temp > 30

Acidification(ph) == ph < 78

Hypoxia(o2) == o2 < 4

CheckTemp(db, sensor_id, temp, timestamp) ==
    IF HighTemperature(temp)
    THEN InsertAnomaly(db, Anomaly(sensor_id, "high_temperature", temp, "warning", timestamp))
    ELSE db

CheckPh(db, sensor_id, ph, timestamp) ==
    IF Acidification(ph)
    THEN InsertAnomaly(db, Anomaly(sensor_id, "ocean_acidification", ph, "critical", timestamp))
    ELSE db

CheckO2(db, sensor_id, o2, timestamp) ==
    IF Hypoxia(o2)
    THEN InsertAnomaly(db, Anomaly(sensor_id, "hypoxia", o2, "critical", timestamp))
    ELSE db

\* the rules chained with elif: the first that fires hides the others
_check_anomalies_elif(db, sensor_id, temp, ph, o2, timestamp) ==
    IF HighTemperature(temp) THEN CheckTemp(db, sensor_id, temp, timestamp)
    ELSE IF Acidification(ph) THEN CheckPh(db, sensor_id, ph, timestamp)
    ELSE CheckO2(db, sensor_id, o2, timestamp)

_check_anomalies(db, sensor_id, temp, ph, o2, timestamp) ==
    CheckO2(CheckPh(CheckTemp(db, sensor_id, temp, timestamp),
                    sensor_id, ph, timestamp),
            sensor_id, o2, timestamp)

(***************************************************************************)
(* Transactions.  sqlite3.connect() with the default isolation_level opens *)
(* a transaction before the first INSERT or UPDATE; the file changes only  *)
(* at conn.commit().  A connection that is dropped without a commit (an    *)
(* exception, the process dying) is rolled back.                           *)
(***************************************************************************)
\* isolation_level=None: every statement is durable at once
OnDiskAutocommit(disk, view, committed) == view

OnDisk(disk, view, committed) == IF committed THEN view ELSE disk

\* Python's truth value of the depth argument (None and 0 are false)
Truthy(x) == x # NULL /\ x[1] # 0

\* depth = depth or sensor_row[5]
EffectiveDepth(depth, sensor_row) ==
    IF Truthy(depth) THEN depth[1] ELSE sensor_row[1].depth_m

\* The connection's view after the first k statements of ingest_reading:
\* 0 none, 1 the reading row, 2 the pointer update, 3..5 the three anomaly
\* rules.
IngestView(db, reading, k) ==
    LET v1 == InsertReading(db, reading)
        v2 == UpdateLastReading(v1, reading.sensor_id, reading.timestamp)
        v3 == CheckTemp(v2, reading.sensor_id, reading.temperature_c, reading.timestamp)
        v4 == CheckPh(v3, reading.sensor_id, reading.ph, reading.timestamp)
    IN  CASE k = 0 -> db
          [] k = 1 -> v1
          [] k = 2 -> v2
          [] k = 3 -> v3
          [] k = 4 -> v4
          [] OTHER -> _check_anomalies(v2, reading.sensor_id, reading.temperature_c,
                                       reading.ph, reading.dissolved_o2_mgl,
                                       reading.timestamp)

Store(db) ==
    /\ sensors' = db.sensors
    /\ readings' = db.readings
    /\ anomalies' = db.anomalies

(***************************************************************************)
(* The measurements the model ingests: m = <<temp, salinity, ph, o2,       *)
(* current>>.                                                              *)
(***************************************************************************)
Measurement(temp, salinity, ph, o2, current) ==
    [temp |-> temp, salinity |-> salinity, ph |-> ph, o2 |-> o2, current |-> current]

Calm    == Measurement(30, 34, 78, 4, 0)    \* every value on its threshold
Hot     == Measurement(31, 35, 80, 5, 1)    \* high_temperature only
Sour    == Measurement(20, 33, 75, 3, 0)    \* ocean_acidification and hypoxia
Extreme == Measurement(32, 36, 77, 3, 1)    \* all three rules

Measurements == {Calm, Hot, Sour, Extreme}

DepthArgs == {NULL, Some(0), Some(12)}

\* f"S_{uuid.uuid4().hex[:8].upper()}": the values the model lets it take
UuidPool == <<"S_0A1B2C3D", "S_4E5F6071", "S_8293A4B5">>

UuidIds == {UuidPool[i] : i \in 1..MaxUuid}

(***************************************************************************)
(* deploy_sensor(name, type_, lat, lon, depth_m); uuid is the value        *)
(* uuid4() draws.  An id already in the table makes the INSERT raise       *)
(* sqlite3.IntegrityError (id is the PRIMARY KEY) before the commit.       *)
(***************************************************************************)
\* the type check left out
ValidTypeAny(type_) == TRUE

ValidType(type_) == type_ \in SensorType

\* INSERT INTO sensors VALUES (...)
InsertSensor(db, sensor) ==
    [db EXCEPT !.sensors =
        [id \in DOMAIN @ \cup {sensor.id} |-> IF id = sensor.id THEN sensor ELSE @[id]]]

deploy_sensor(name, type_, lat, lon, depth_m, uuid) ==
    /\ call' = [op |-> "deploy_sensor", name |-> name, type_ |-> type_, lat |-> lat,
                lon |-> lon, depth_m |-> depth_m, uuid |-> uuid]
    /\ IF ~ValidType(type_)
       THEN /\ ret' = [exc |-> "ValueError"]
            /\ UNCHANGED <<sensors, readings, anomalies>>
       ELSE LET sensor == OceanSensor(uuid, name, type_, lat, lon, depth_m, "active", NULL)
            IN  IF sensor.id \in DOMAIN sensors
                THEN /\ ret' = [exc |-> "IntegrityError"]
                     /\ UNCHANGED <<sensors, readings, anomalies>>
                ELSE /\ Store(OnDisk(Database, InsertSensor(Database, sensor), TRUE))
                     /\ ret' = [exc |-> "", value |-> sensor]
    /\ UNCHANGED now

(***************************************************************************)
(* ingest_reading(sensor_id, temp, salinity, ph, o2, current, depth)       *)
(***************************************************************************)
ingest_reading(sensor_id, m, depth) ==
    LET sensor_row == SelectSensor(Database, sensor_id) IN
    /\ call' = [op |-> "ingest_reading", sensor_id |-> sensor_id, m |-> m,
                depth |-> depth]
    /\ IF sensor_row = NULL
       THEN /\ ret' = [exc |-> "ValueError"]
            /\ UNCHANGED <<sensors, readings, anomalies>>
       ELSE LET reading == OceanReading(sensor_id, m.temp, m.salinity, m.ph, m.o2,
                                        m.current, EffectiveDepth(depth, sensor_row),
                                        isoformat(now))
            IN  /\ Len(readings) < MaxReadings
                /\ Store(OnDisk(Database, IngestView(Database, reading, 5), TRUE))
                /\ ret' = [exc |-> "", value |-> reading]
    /\ UNCHANGED now

\* ingest_reading that stops after its k-th write, before conn.commit(): the
\* next statement raises (sqlite3.OperationalError: the file is locked, the
\* disk is full) or the process dies.
ingest_reading_interrupted(sensor_id, m, depth, k) ==
    LET sensor_row == SelectSensor(Database, sensor_id) IN
    /\ sensor_row # NULL
    /\ Len(readings) < MaxReadings
    /\ LET reading == OceanReading(sensor_id, m.temp, m.salinity, m.ph, m.o2,
                                   m.current, EffectiveDepth(depth, sensor_row),
                                   isoformat(now))
       IN  Store(OnDisk(Database, IngestView(Database, reading, k), FALSE))
    /\ call' = [op |-> "ingest_reading", sensor_id |-> sensor_id, m |-> m,
                depth |-> depth]
    /\ ret' = [exc |-> "OperationalError"]
    /\ UNCHANGED now

(***************************************************************************)
(* get_latest(sensor_id): ... WHERE sensor_id = ? ORDER BY timestamp DESC  *)
(* LIMIT 1.  SQL leaves the order of rows with equal timestamps open, so   *)
(* any row with the greatest timestamp may be the one returned.            *)
(***************************************************************************)
RowsOf(db, sensor_id) ==
    {i \in DOMAIN db.readings : db.readings[i].sensor_id = sensor_id}

\* the row ids that can come first under ORDER BY timestamp DESC
FirstRows(db, sensor_id) ==
    {i \in RowsOf(db, sensor_id) :
        \A j \in RowsOf(db, sensor_id) :
            ~TextLess(db.readings[i].timestamp, db.readings[j].timestamp)}

\* what fetchone() may return, turned into an OceanReading or None
LatestOf(db, sensor_id) ==
    IF RowsOf(db, sensor_id) = {} THEN {NULL}
    ELSE {Some(db.readings[i]) : i \in FirstRows(db, sensor_id)}

get_latest(sensor_id) ==
    /\ call' = [op |-> "get_latest", sensor_id |-> sensor_id]
    /\ \E latest \in LatestOf(Database, sensor_id) :
           ret' = [exc |-> "", value |-> latest]
    /\ UNCHANGED <<sensors, readings, anomalies, now>>

(***************************************************************************)
(* get_history(sensor_id, hours): ... WHERE sensor_id = ? AND timestamp >  *)
(* ? ORDER BY timestamp DESC, the bound being (now - hours).isoformat().   *)
(***************************************************************************)
\* timestamp >= ? in place of timestamp > ?
AfterCutoffOrAt(timestamp, cutoff) == ~TextLess(timestamp, cutoff)

AfterCutoff(timestamp, cutoff) == TextLess(cutoff, timestamp)

\* the orders in which ORDER BY timestamp DESC may deliver the rows `rows`
DescOrders(db, rows) ==
    {o \in [1..Cardinality(rows) -> rows] :
        /\ \A i, j \in DOMAIN o : i # j => o[i] # o[j]
        /\ \A i, j \in DOMAIN o :
               i < j => ~TextLess(db.readings[o[i]].timestamp,
                                  db.readings[o[j]].timestamp)}

get_history(sensor_id, hours) ==
    LET cutoff == isoformat(now - timedelta(hours))
        rows   == {i \in RowsOf(Database, sensor_id) :
                      AfterCutoff(readings[i].timestamp, cutoff)}
    IN  /\ call' = [op |-> "get_history", sensor_id |-> sensor_id, hours |-> hours]
        /\ \E o \in DescOrders(Database, rows) :
               ret' = [exc |-> "", value |-> [i \in DOMAIN o |-> readings[o[i]]]]
        /\ UNCHANGED <<sensors, readings, anomalies, now>>

(***************************************************************************)
(* calculate_heat_content(sensor_ids).  Heat is kept in thousandths of     *)
(* kJ/m2 (temperature * depth * 4186 is the heat times 1000); round(x, 2)  *)
(* gives hundredths.  A value half way between two hundredths goes to      *)
(* either: which one depends on the float's binary expansion.              *)
(***************************************************************************)
RoundDiv(num, den) ==
    LET q == num \div den
        r == num % den
    IN  IF 2 * r < den THEN {q}
        ELSE IF 2 * r > den THEN {q + 1}
        ELSE {q, q + 1}

\* the depth factor left out
HeatNoDepth(latest) == latest.temperature_c * 4186

Heat(latest) == latest.temperature_c * latest.depth_m * 4186

RECURSIVE SumHeat(_)
SumHeat(latests) ==
    IF latests = <<>> THEN 0
    ELSE (IF Head(latests) # NULL THEN Heat(Head(latests)[1]) ELSE 0)
            + SumHeat(Tail(latests))

\* what the get_latest calls of one pass over sensor_ids may return
RECURSIVE LatestsOf(_, _)
LatestsOf(db, sensor_ids) ==
    IF sensor_ids = <<>> THEN {<<>>}
    ELSE {<<latest>> \o rest : latest \in LatestOf(db, Head(sensor_ids)),
                                rest \in LatestsOf(db, Tail(sensor_ids))}

calculate_heat_content(sensor_ids) ==
    /\ call' = [op |-> "calculate_heat_content", sensor_ids |-> sensor_ids]
    /\ \E latests \in LatestsOf(Database, sensor_ids) :
             LET total_heat     == SumHeat(latests)
                 readings_count == Cardinality({i \in DOMAIN latests : latests[i] # NULL})
             IN  \E total \in RoundDiv(total_heat, 10),
                    average \in (IF readings_count > 0
                                 THEN RoundDiv(total_heat, 10 * readings_count)
                                 ELSE {0}) :
                     ret' = [exc |-> "",
                             value |-> [total_heat_content_kj_m2 |-> total,
                                        average_heat_kj_m2 |-> average,
                                        sensors_sampled |-> readings_count]]
    /\ UNCHANGED <<sensors, readings, anomalies, now>>

(***************************************************************************)
(* The clock moves between calls: forward, or back.                        *)
(***************************************************************************)
Tick ==
    /\ now' \in (0..MaxClock) \ {now}
    /\ call' = [op |-> "none"]
    /\ ret' = [exc |-> "", value |-> NULL]
    /\ UNCHANGED <<sensors, readings, anomalies>>

\* OceanDataCollector() on a fresh database file
Init ==
    /\ sensors = demo_sensors
    /\ readings = <<>>
    /\ anomalies = <<>>
    /\ now = 0
    /\ call = [op |-> "none"]
    /\ ret = [exc |-> "", value |-> NULL]

(***************************************************************************)
(* Specifications.  Each drives the same operations with the arguments     *)
(* its claims are about.                                                   *)
(***************************************************************************)
\* The write path: ingestion, its anomaly rules and its transaction.
Next ==
    \/ Tick
    \/ \E sensor_id \in {"S_PACIFIC_01", "S_UNKNOWN"}, m \in Measurements :
           ingest_reading(sensor_id, m, NULL)
    \/ \E m \in {Sour, Extreme}, k \in 0..5 :
           ingest_reading_interrupted("S_PACIFIC_01", m, NULL, k)

Spec == Init /\ [][Next]_vars

\* Ingestion across the fleet, with and without a depth argument.
NextFleet ==
    \/ Tick
    \/ \E sensor_id \in {"S_PACIFIC_01", "S_ATLANTIC_01"}, depth \in DepthArgs :
           ingest_reading(sensor_id, Hot, depth)

SpecFleet == Init /\ [][NextFleet]_vars

\* Deployment, and ingestion on what was deployed.
NextDeploy ==
    \/ Tick
    \/ \E type_ \in {"buoy", "ctd", "submarine", "BUOY"}, uuid \in UuidIds :
           deploy_sensor("Test Buoy", type_, 100, 200, 100, uuid)
    \/ \E sensor_id \in UuidIds : ingest_reading(sensor_id, Hot, NULL)

SpecDeploy == Init /\ [][NextDeploy]_vars

\* Ingestion followed by get_latest.
NextLatest ==
    \/ Tick
    \/ \E m \in {Hot, Sour} : ingest_reading("S_PACIFIC_01", m, NULL)
    \/ \E sensor_id \in {"S_PACIFIC_01", "S_ARCTIC_01", "S_UNKNOWN"} :
           get_latest(sensor_id)

SpecLatest == Init /\ [][NextLatest]_vars

\* Ingestion and history windows of 0, 1 and 24 hours.
NextHistory ==
    \/ Tick
    \/ \E sensor_id \in {"S_PACIFIC_01", "S_ATLANTIC_01"} :
           ingest_reading(sensor_id, Hot, NULL)
    \/ \E sensor_id \in {"S_PACIFIC_01", "S_ATLANTIC_01"}, hours \in {0, 1, 24} :
           get_history(sensor_id, hours)

SpecHistory == Init /\ [][NextHistory]_vars

\* Ingestion and the heat aggregate over lists of sensor ids.
SensorIdLists ==
    {<<>>, <<"S_UNKNOWN">>, <<"S_ARCTIC_01">>, <<"S_PACIFIC_01">>,
     <<"S_PACIFIC_01", "S_ATLANTIC_01">>, <<"S_PACIFIC_01", "S_PACIFIC_01">>,
     <<"S_ATLANTIC_01", "S_UNKNOWN", "S_PACIFIC_01">>}

NextHeat ==
    \/ Tick
    \/ \E sensor_id \in {"S_PACIFIC_01", "S_ATLANTIC_01"}, depth \in {NULL, Some(12)} :
           ingest_reading(sensor_id, Hot, depth)
    \/ \E sensor_ids \in SensorIdLists : calculate_heat_content(sensor_ids)

SpecHeat == Init /\ [][NextHeat]_vars

(***************************************************************************)
(* What the claims speak of.                                               *)
(***************************************************************************)
\* the instant a timestamp text stands for (datetime.fromisoformat)
TimeOf(timestamp) ==
    (timestamp[1] - 48 - 2) * TicksPerDay
        + ((timestamp[2] - 48) * 10 + (timestamp[3] - 48)) * TicksPerHour
        + (IF Len(timestamp) > 3 THEN 1 ELSE 0)

\* the rows a step appended to a table
NewRows(old, new) == SubSeq(new, Len(old) + 1, Len(new))

GrewFrom(old, new) == Len(new) >= Len(old) /\ SubSeq(new, 1, Len(old)) = old

Count(rows, r) == Cardinality({i \in DOMAIN rows : rows[i] = r})

OfType(rows, type) == {i \in DOMAIN rows : rows[i].type = type}

\* the anomalies the rule table gives for a reading
Triggered(reading) ==
    {a \in {Anomaly(reading.sensor_id, "high_temperature", reading.temperature_c,
                    "warning", reading.timestamp),
            Anomaly(reading.sensor_id, "ocean_acidification", reading.ph,
                    "critical", reading.timestamp),
            Anomaly(reading.sensor_id, "hypoxia", reading.dissolved_o2_mgl,
                    "critical", reading.timestamp)} :
        \/ a.type = "high_temperature" /\ reading.temperature_c > 30
        \/ a.type = "ocean_acidification" /\ reading.ph < 78
        \/ a.type = "hypoxia" /\ reading.dissolved_o2_mgl < 4}

RECURSIVE TriggeredCount(_)
TriggeredCount(rows) ==
    IF rows = <<>> THEN 0
    ELSE Cardinality(Triggered(Head(rows))) + TriggeredCount(Tail(rows))

IngestReturned == call'.op = "ingest_reading" /\ ret'.exc = ""

(***************************************************************************)
(* C1.  ingest_reading is atomic on disk.  Every ingest_reading step,      *)
(* whether it returns, raises or is cut off after any of its statements,   *)
(* either leaves the three tables as they were (and then it did not        *)
(* return a reading), or appends the returned reading, sets that sensor's  *)
(* last_reading_ts to its timestamp and appends exactly the anomalies the  *)
(* reading triggers.  So in every reachable state a sensor has a           *)
(* last_reading_ts exactly when it has a reading, and the anomalies table  *)
(* holds as many rows as the stored readings trigger.                      *)
(***************************************************************************)
C1_AllOrNothing ==
    call'.op = "ingest_reading" =>
        \/ /\ ret'.exc # ""
           /\ UNCHANGED <<sensors, readings, anomalies>>
        \/ /\ ret'.exc = ""
           /\ readings' = Append(readings, ret'.value)
           /\ sensors' = [sensors EXCEPT ![call'.sensor_id].last_reading_ts =
                                              ret'.value.timestamp]
           /\ GrewFrom(anomalies, anomalies')
           /\ Range(NewRows(anomalies, anomalies')) = Triggered(ret'.value)
           /\ Len(NewRows(anomalies, anomalies')) = Cardinality(Triggered(ret'.value))

C1_NothingHalfWritten ==
    /\ \A id \in DOMAIN sensors :
           (sensors[id].last_reading_ts = NULL) <=> (RowsOf(Database, id) = {})
    /\ \A i \in DOMAIN readings :
           /\ readings[i].sensor_id \in DOMAIN sensors
           /\ Triggered(readings[i]) \subseteq Range(anomalies)
    /\ Len(anomalies) = TriggeredCount(readings)

C1_IngestAtomic == [][C1_AllOrNothing]_vars /\ []C1_NothingHalfWritten

\* an ingest was cut off while the tables already held a reading
C1_Witness ==
    /\ call.op = "ingest_reading"
    /\ ret.exc = "OperationalError"
    /\ call.m = Extreme
    /\ Len(readings) = 1

(***************************************************************************)
(* C2.  An ingest_reading step whose sensor id is not in the sensors table *)
(* raises ValueError (the code's exception for "sensor not found") and     *)
(* leaves sensors, readings and anomalies unchanged, whatever the          *)
(* measurement.                                                            *)
(***************************************************************************)
C2_UnknownSensorWritesNothing ==
    [][call'.op = "ingest_reading" /\ call'.sensor_id \notin DOMAIN sensors =>
          /\ ret'.exc = "ValueError"
          /\ UNCHANGED <<sensors, readings, anomalies>>]_vars

\* a measurement breaching all three rules was refused for an unknown id
C2_Witness ==
    /\ call.op = "ingest_reading"
    /\ call.sensor_id \notin DOMAIN sensors
    /\ call.m = Extreme
    /\ ret.exc = "ValueError"
    /\ Len(readings) = 1

(***************************************************************************)
(* C4.  Every ingest_reading step that returns leaves the old anomaly rows *)
(* in place and, when the temperature is above 30, appends exactly one     *)
(* high_temperature row, with severity warning, that temperature as its    *)
(* value, the sensor's id and the reading's timestamp; when the            *)
(* temperature is 30 or less it appends no high_temperature row.           *)
(***************************************************************************)
C4_OneHighTemperaturePerBreach ==
    [][IngestReturned =>
          LET new == NewRows(anomalies, anomalies')
              hot == OfType(new, "high_temperature")
          IN  /\ GrewFrom(anomalies, anomalies')
              /\ IF call'.m.temp > 30
                 THEN /\ Cardinality(hot) = 1
                      /\ \A i \in hot :
                             new[i] = Anomaly(call'.sensor_id, "high_temperature",
                                              call'.m.temp, "warning",
                                              ret'.value.timestamp)
                 ELSE hot = {}]_vars

\* two breaching readings of one sensor in a row, two high_temperature rows
C4_Witness ==
    /\ call.op = "ingest_reading"
    /\ ret.exc = ""
    /\ Len(readings) = 2
    /\ \A i \in DOMAIN readings :
           readings[i].sensor_id = "S_PACIFIC_01" /\ readings[i].temperature_c > 30
    /\ Cardinality(OfType(anomalies, "high_temperature")) = 2

(***************************************************************************)
(* C5, as claimed.  Every ingest_reading step that returns with pH below   *)
(* 7.8 and dissolved O2 below 4 makes the anomalies table grow by exactly  *)
(* two rows, one ocean_acidification and one hypoxia.                      *)
(***************************************************************************)
C5_Original ==
    [][IngestReturned /\ call'.m.ph < 78 /\ call'.m.o2 < 4 =>
          LET new == NewRows(anomalies, anomalies')
          IN  /\ GrewFrom(anomalies, anomalies')
              /\ Len(new) = 2
              /\ Cardinality(OfType(new, "ocean_acidification")) = 1
              /\ Cardinality(OfType(new, "hypoxia")) = 1]_vars

(***************************************************************************)
(* C5, amended.  Every ingest_reading step that returns with pH below 7.8  *)
(* and dissolved O2 below 4 appends exactly one ocean_acidification row    *)
(* (value = pH, critical) and exactly one hypoxia row (value = dissolved   *)
(* O2, critical), both with the sensor's id and the reading's timestamp;   *)
(* the table grows by two rows when the temperature is 30 or less and by   *)
(* three (the third a high_temperature row) when it is above 30.           *)
(***************************************************************************)
C5_AcidificationAndHypoxia ==
    [][IngestReturned /\ call'.m.ph < 78 /\ call'.m.o2 < 4 =>
          LET new == NewRows(anomalies, anomalies')
              acid == OfType(new, "ocean_acidification")
              hypo == OfType(new, "hypoxia")
          IN  /\ GrewFrom(anomalies, anomalies')
              /\ Cardinality(acid) = 1
              /\ \A i \in acid :
                     new[i] = Anomaly(call'.sensor_id, "ocean_acidification",
                                      call'.m.ph, "critical", ret'.value.timestamp)
              /\ Cardinality(hypo) = 1
              /\ \A i \in hypo :
                     new[i] = Anomaly(call'.sensor_id, "hypoxia",
                                      call'.m.o2, "critical", ret'.value.timestamp)
              /\ Len(new) = (IF call'.m.temp > 30 THEN 3 ELSE 2)
              /\ Cardinality(OfType(new, "high_temperature")) =
                     (IF call'.m.temp > 30 THEN 1 ELSE 0)]_vars

\* a reading with low pH, low O2 and a high temperature went in: three rows
C5_Witness ==
    /\ call.op = "ingest_reading"
    /\ ret.exc = ""
    /\ call.m.ph < 78 /\ call.m.o2 < 4 /\ call.m.temp > 30
    /\ Len(readings) = 1
    /\ Len(anomalies) = 3

(***************************************************************************)
(* C6, as claimed.  Every ingest_reading step that returns stores and      *)
(* returns the caller's depth when the caller gave one (0 included) and    *)
(* the sensor's depth_m only when the caller gave none.                    *)
(***************************************************************************)
C6_DepthAsSupplied ==
    [][IngestReturned =>
          LET want == IF call'.depth # NULL THEN call'.depth[1]
                      ELSE sensors[call'.sensor_id].depth_m
          IN  /\ ret'.value.depth_m = want
              /\ readings'[Len(readings')].depth_m = want]_vars

(***************************************************************************)
(* C10, as claimed.  In every reachable state each sensor's                *)
(* last_reading_ts is NULL exactly when the sensor has no reading and is   *)
(* otherwise the greatest timestamp among its readings; an ingest changes  *)
(* nothing else in the sensors table.                                      *)
(***************************************************************************)
C10_PointerIsMaximum ==
    \A id \in DOMAIN sensors :
        IF RowsOf(Database, id) = {} THEN sensors[id].last_reading_ts = NULL
        ELSE /\ \E i \in RowsOf(Database, id) :
                    sensors[id].last_reading_ts = readings[i].timestamp
             /\ \A i \in RowsOf(Database, id) :
                    TimeOf(readings[i].timestamp) <= TimeOf(sensors[id].last_reading_ts)

C10_IngestFrame ==
    call'.op = "ingest_reading" =>
        /\ DOMAIN sensors' = DOMAIN sensors
        /\ \A id \in DOMAIN sensors :
               /\ id # call'.sensor_id => sensors'[id] = sensors[id]
               /\ [sensors'[id] EXCEPT !.last_reading_ts = NULL] =
                      [sensors[id] EXCEPT !.last_reading_ts = NULL]

C10_Original == []C10_PointerIsMaximum /\ [][C10_IngestFrame]_vars

(***************************************************************************)
(* C10, amended.  In every reachable state each sensor's last_reading_ts   *)
(* is NULL exactly when the sensor has no reading and is otherwise the     *)
(* timestamp of the reading of that sensor ingested last (its row with the *)
(* highest id), which is the greatest timestamp unless the clock was set   *)
(* back between two ingests; an ingest changes no other column of the      *)
(* sensor's row and no other sensor's row.                                 *)
(***************************************************************************)
C10_PointerIsLastIngested ==
    \A id \in DOMAIN sensors :
        IF RowsOf(Database, id) = {} THEN sensors[id].last_reading_ts = NULL
        ELSE \E i \in RowsOf(Database, id) :
                 /\ \A j \in RowsOf(Database, id) : j <= i
                 /\ sensors[id].last_reading_ts = readings[i].timestamp

C10_LastReadingPointer == []C10_PointerIsLastIngested /\ [][C10_IngestFrame]_vars

\* two readings of one sensor, the second stamped earlier than the first
C10_Witness ==
    /\ call.op = "ingest_reading"
    /\ ret.exc = ""
    /\ Len(readings) = 2
    /\ readings[1].sensor_id = readings[2].sensor_id
    /\ TimeOf(readings[2].timestamp) < TimeOf(readings[1].timestamp)
    /\ sensors[readings[2].sensor_id].last_reading_ts = readings[2].timestamp
    /\ sensors["S_ARCTIC_01"].last_reading_ts = NULL

(***************************************************************************)
(* C8, as claimed.  A deploy_sensor step with a type outside the           *)
(* enumeration raises ValueError and leaves the sensors table as it was; a *)
(* deploy_sensor step with an enumerated type adds exactly one row, with   *)
(* status active and no last reading.                                      *)
(***************************************************************************)
EnumeratedTypes == {"buoy", "argo_float", "glider", "mooring", "auv", "ctd"}

OneRowAdded ==
    /\ ret'.exc = ""
    /\ \E id \in DOMAIN sensors' \ DOMAIN sensors :
           /\ DOMAIN sensors' = DOMAIN sensors \cup {id}
           /\ sensors'[id] = ret'.value
           /\ sensors'[id] = [id |-> id, name |-> call'.name, type |-> call'.type_,
                              lat |-> call'.lat, lon |-> call'.lon,
                              depth_m |-> call'.depth_m, status |-> "active",
                              last_reading_ts |-> NULL]
    /\ \A id \in DOMAIN sensors : sensors'[id] = sensors[id]
    /\ UNCHANGED <<readings, anomalies>>

C8_Original ==
    [][call'.op = "deploy_sensor" =>
          IF call'.type_ \notin EnumeratedTypes
          THEN ret'.exc = "ValueError" /\ UNCHANGED <<sensors, readings, anomalies>>
          ELSE OneRowAdded]_vars

(***************************************************************************)
(* C8, amended.  A deploy_sensor step with a type outside the enumeration  *)
(* raises ValueError and leaves the sensors table as it was; one with an   *)
(* enumerated type adds exactly one row, with status active and no last    *)
(* reading, unless the id it generated is already in the table, in which   *)
(* case the insert raises IntegrityError and no row is written.            *)
(***************************************************************************)
C8_DeployValidatesType ==
    [][call'.op = "deploy_sensor" =>
          IF call'.type_ \notin EnumeratedTypes
          THEN ret'.exc = "ValueError" /\ UNCHANGED <<sensors, readings, anomalies>>
          ELSE IF call'.uuid \in DOMAIN sensors
          THEN ret'.exc = "IntegrityError" /\ UNCHANGED <<sensors, readings, anomalies>>
          ELSE OneRowAdded]_vars

\* an unknown type was refused after a sensor had been deployed and had ingested
C8_Witness ==
    /\ call.op = "deploy_sensor"
    /\ call.type_ = "submarine"
    /\ ret.exc = "ValueError"
    /\ Cardinality(DOMAIN sensors) = 4
    /\ Len(readings) = 1

(***************************************************************************)
(* C3, as claimed.  A get_latest step that follows at once a returned      *)
(* ingest_reading on the same sensor returns the record that ingest        *)
(* returned, also when an earlier reading of the sensor carries an equal   *)
(* or a later timestamp.                                                   *)
(***************************************************************************)
C3_LatestIsJustIngested ==
    [][/\ call.op = "ingest_reading"
       /\ ret.exc = ""
       /\ call'.op = "get_latest"
       /\ call'.sensor_id = call.sensor_id
       => ret'.value = Some(ret.value)]_vars

(***************************************************************************)
(* C7.  After get_history(sensor_id, hours) the result holds exactly the   *)
(* readings of that sensor stamped strictly later than now - hours, each   *)
(* as often as the table holds it, none stamped at or before that instant  *)
(* and none of another sensor, in order of non-increasing timestamp.       *)
(***************************************************************************)
C7_HistoryWindow ==
    call.op = "get_history" =>
        LET result == ret.value
            cutoff == now - call.hours * TicksPerHour
            within(r) == r.sensor_id = call.sensor_id /\ TimeOf(r.timestamp) > cutoff
        IN  /\ ret.exc = ""
            /\ \A r \in Range(readings) \cup Range(result) :
                   Count(result, r) = (IF within(r) THEN Count(readings, r) ELSE 0)
            /\ \A i, j \in DOMAIN result :
                   i < j => TimeOf(result[i].timestamp) >= TimeOf(result[j].timestamp)

\* one reading of the sensor lies exactly on the cutoff and is left out, a
\* later one is returned
C7_Witness ==
    /\ call.op = "get_history"
    /\ Len(ret.value) = 1
    /\ \E i \in RowsOf(Database, call.sensor_id) :
           TimeOf(readings[i].timestamp) = now - call.hours * TicksPerHour
    /\ call.hours = 1

(***************************************************************************)
(* C9.  The sensors a heat aggregate draws on: for each listed id with a   *)
(* reading, one of its readings with the greatest timestamp.               *)
(***************************************************************************)
Sampled(sensor_ids) == {i \in DOMAIN sensor_ids : RowsOf(Database, sensor_ids[i]) # {}}

GreatestRows(sensor_id) ==
    {i \in RowsOf(Database, sensor_id) :
        \A j \in RowsOf(Database, sensor_id) :
            TimeOf(readings[j].timestamp) <= TimeOf(readings[i].timestamp)}

Picks(sensor_ids) ==
    LET greatest == [id \in Range(sensor_ids) |-> GreatestRows(id)]
    IN  {pick \in [Sampled(sensor_ids) -> DOMAIN readings] :
            \A i \in Sampled(sensor_ids) : pick[i] \in greatest[sensor_ids[i]]}

\* thousand times the sum of temperature x depth x 4186 / 1000 over the picks
RECURSIVE HeatSum(_, _)
HeatSum(pick, positions) ==
    IF positions = {} THEN 0
    ELSE LET i == CHOOSE x \in positions : TRUE
         IN  readings[pick[i]].temperature_c * readings[pick[i]].depth_m * 4186
                 + HeatSum(pick, positions \ {i})

Abs(x) == IF x < 0 THEN 0 - x ELSE x

(***************************************************************************)
(* C9, as claimed.  calculate_heat_content returns sampled = the number of *)
(* listed ids with a reading; with none it returns 0, 0, 0; otherwise      *)
(* total is the sum of temperature x depth x 4186 / 1000 over them and     *)
(* average is total / sampled.  (Results are in hundredths, the sum in     *)
(* thousandths.)                                                           *)
(***************************************************************************)
C9_Original ==
    call.op = "calculate_heat_content" =>
        LET v == ret.value
            n == Cardinality(Sampled(call.sensor_ids))
        IN  /\ ret.exc = ""
            /\ v.sensors_sampled = n
            /\ IF n = 0
               THEN v.total_heat_content_kj_m2 = 0 /\ v.average_heat_kj_m2 = 0
               ELSE \E pick \in Picks(call.sensor_ids) :
                        /\ 10 * v.total_heat_content_kj_m2 =
                               HeatSum(pick, Sampled(call.sensor_ids))
                        /\ n * v.average_heat_kj_m2 = v.total_heat_content_kj_m2

(***************************************************************************)
(* C9, amended.  calculate_heat_content returns sampled = the number of    *)
(* listed ids with a reading; with none it returns 0, 0, 0 (no division);  *)
(* otherwise total is the sum of temperature x depth x 4186 / 1000 over    *)
(* them rounded to two decimals, and average is that unrounded sum divided *)
(* by sampled, rounded to two decimals.                                    *)
(***************************************************************************)
C9_HeatContent ==
    call.op = "calculate_heat_content" =>
        LET v == ret.value
            n == Cardinality(Sampled(call.sensor_ids))
        IN  /\ ret.exc = ""
            /\ v.sensors_sampled = n
            /\ IF n = 0
               THEN v.total_heat_content_kj_m2 = 0 /\ v.average_heat_kj_m2 = 0
               ELSE \E pick \in Picks(call.sensor_ids) :
                        LET sum == HeatSum(pick, Sampled(call.sensor_ids))
                        IN  /\ Abs(10 * v.total_heat_content_kj_m2 - sum) <= 5
                            /\ Abs(10 * n * v.average_heat_kj_m2 - sum) <= 5 * n

\* two of three listed ids have a reading, and the sum has a third decimal
C9_Witness ==
    /\ call.op = "calculate_heat_content"
    /\ Len(call.sensor_ids) = 3
    /\ ret.value.sensors_sampled = 2
    /\ \E pick \in Picks(call.sensor_ids) :
           HeatSum(pick, Sampled(call.sensor_ids)) % 10 # 0

====
